---- MODULE Spec2Model ----
(***************************************************************************)
(* gwu: generic web utility (gwu/gwu.go) and its example, the in-memory    *)
(* poem store with a JSON API (examples/poem/poem.go).                     *)
(*                                                                         *)
(* Two specifications share the store:                                     *)
(*   Spec      - one action per HTTP route of the example (and one for a   *)
(*               handler built by Handle from an arbitrary decoder and     *)
(*               Exec); an action is one whole request, from the decoder   *)
(*               to the last byte written to the http.ResponseWriter.      *)
(*   StoreSpec - NumWorkers goroutines, each making one call of a Store    *)
(*               method, interleaved statement by statement under the      *)
(*               store's sync.RWMutex.                                     *)
(***************************************************************************)
EXTENDS Integers, Sequences, FiniteSets, TLC

VARIABLES
    poems,      \* Store.poems: map[ID]Poem, a function from its keys
    req,        \* the request the last handler invocation served
    prev,       \* Store.poems when that invocation began
    resp,       \* the http.ResponseWriter of that invocation, when it returned
    logs,       \* what that invocation passed to opts.Log
    calls,      \* the functions that invocation called, in call order
    mu,         \* Store.mu: [w |-> a writer holds it, r |-> number of readers]
    pc,         \* per goroutine: the statement of the Store method it is at
    op,         \* per goroutine: the Store method it called and its argument
    ret,        \* per goroutine: what the method returned (or its locals so far)
    it,         \* per goroutine: the position of its range loop over the map
    hist,       \* every value Store.poems has had, in order
    span        \* per goroutine: Len(hist) at its call (lo) and at its return (hi)

vars == <<poems, req, prev, resp, logs, calls, mu, pc, op, ret, it, hist, span>>
httpVars == <<req, prev, resp, logs, calls>>
storeVars == <<mu, pc, op, ret, it, span>>

---------------------------------------------------------------------------
(* Bounds *)

\* goroutines calling the Store concurrently
NumWorkers == 2
\* identifiers NewID can produce besides the ones already stored
NumFreshIDs == 2

---------------------------------------------------------------------------
(* Errors and status codes *)

\* a nil error
NoErr == "<nil>"

ErrDecodeRequest == "failed to decode request"
ErrEncodeResponse == "failed to encode response"
ErrNotFound == "poem(s) do(es) not exist"
ErrAuthorNotFound == "the requested author does not exist"
ErrCouldNotCreate == "internal error: could not create"
errNotFound == "not found - internally"
errDuplicate == "duplicate poem - internally"

StatusOK == 200
StatusCreated == 201
StatusBadRequest == 400
StatusNotFound == 404
StatusInternalServerError == 500

---------------------------------------------------------------------------
(* Poems and the store's initial content *)

\* type Poem struct: the zero value
ZeroPoem == [ID |-> "", Name |-> "", Author |-> "", Text |-> ""]

\* Store.mock: the map after the four assignments (each Text cut to its
\* first line)
mock ==
    ("1234567890" :> [ID |-> "1234567890", Name |-> "The Raven",
                      Author |-> "Edgar Allan Poe",
                      Text |-> "Once upon a midnight dreary, while I pondered, weak and weary,"])
    @@ ("abc123defx" :> [ID |-> "abc123defx", Name |-> "The Road Not Taken",
                         Author |-> "Robert Frost",
                         Text |-> "Two roads diverged in a yellow wood,"])
    @@ ("abcdefghij" :> [ID |-> "abcdefghi", Name |-> "Der Erlkönig",
                         Author |-> "Goethe",
                         Text |-> "Wer reitet so spät durch Nacht und Wind?"])
    @@ ("isjzB57elf" :> [ID |-> "isjzB57elf", Name |-> "Der Zauberlehrling",
                         Author |-> "Goethe",
                         Text |-> "Hat der alte Hexenmeister"])

\* NewStore: an empty map, then mock
NewStore == mock

\* identifiers of IDLength characters of IDCharset that are not stored at start
FreshIDs == {"newpoem00" \o ToString(i) : i \in 1..NumFreshIDs}

\* NewID: every string of IDLength characters of IDCharset can come out of
\* rand.Intn; the model keeps the stored keys of that shape and the fresh ones
NewID == DOMAIN mock \cup FreshIDs

\* path values a client may send as {id}
PathIDs == NewID \cup {"abcdefghi", "nosuchpoem"}

\* path values a client may send as {author}
PathAuthors == {"Goethe", "Edgar Allan Poe", "Rilke", "Nobody"}

---------------------------------------------------------------------------
(* net/http: the ResponseWriter as the handler and the client see it *)

\* a ResponseWriter nothing was written to. header: the handler's
\* Content-Type; status and sent: the status line and Content-Type that went
\* out with the first WriteHeader; body: the lines written
NewResponseWriter ==
    [wroteHeader |-> FALSE, status |-> 0, header |-> "", sent |-> "",
     body |-> <<>>, writeHeaderCalls |-> 0]

\* w.Header().Set("Content-Type", v)
SetContentType(w, v) == [w EXCEPT !.header = v]

\* w.WriteHeader(code): the first call sends the status line and the headers
\* as they are then; a later call is superfluous and changes nothing sent
WriteHeader(w, code) ==
    IF w.wroteHeader
    THEN [w EXCEPT !.writeHeaderCalls = @ + 1]
    ELSE [w EXCEPT !.wroteHeader = TRUE, !.status = code, !.sent = w.header,
                   !.writeHeaderCalls = @ + 1]

\* w.Write(line): sends the header with 200 first if none was sent
Write(w, line) ==
    LET w1 == IF w.wroteHeader THEN w ELSE WriteHeader(w, StatusOK)
    IN [w1 EXCEPT !.body = Append(@, line)]

\* http.Error(w, error, code)
Error(w, error, code) ==
    Write(WriteHeader(SetContentType(w, "text/plain; charset=utf-8"), code),
          <<error>>)

---------------------------------------------------------------------------
(* encoding/json, for the types the handlers use *)

\* json.Marshal of a Poem: the fields in declaration order under their tags
MarshalPoem(p) ==
    <<"{", "id", p.ID, "name", p.Name, "author", p.Author, "text", p.Text, "}">>

RECURSIVE MarshalPoems(_)
MarshalPoems(ps) ==
    IF ps = <<>> THEN <<>> ELSE MarshalPoem(Head(ps)) \o MarshalPoems(Tail(ps))

\* json.Marshal of the values an Exec returns. kind is the Go type: a Poem,
\* a []Poem (nil marshals as null), a string, or a type json cannot encode
Marshal(data) ==
    CASE data.kind = "Poem" ->
            [err |-> NoErr, line |-> MarshalPoem(data.items[1])]
      [] data.kind = "[]Poem" ->
            [err |-> NoErr, line |-> <<"[">> \o MarshalPoems(data.items) \o <<"]">>]
      [] data.kind = "nil" ->
            [err |-> NoErr, line |-> <<"null">>]
      [] data.kind = "string" ->
            [err |-> NoErr, line |-> <<"str", data.str>>]
      [] OTHER ->
            [err |-> "json: unsupported type: " \o data.kind, line |-> <<>>]

\* json.NewEncoder(w).Encode(data): nothing is written unless Marshal succeeds
Encode(w, data) ==
    LET m == Marshal(data)
    IN IF m.err # NoErr THEN [w |-> w, err |-> m.err]
       ELSE [w |-> Write(w, m.line), err |-> NoErr]

PoemOut(p) == [kind |-> "Poem", items |-> <<p>>, str |-> ""]
PoemsOut(ps) == [kind |-> "[]Poem", items |-> ps, str |-> ""]
NilOut == [kind |-> "nil", items |-> <<>>, str |-> ""]

\* JSON request bodies: malformed, or an object in which each of the keys
\* id, name, author, text is absent or has a string value
Absent == "<absent>"
Bodies ==
    [wellformed : {TRUE}, id : {Absent, "abc123defx"},
     name : {Absent, "", "Wandrers Nachtlied"},
     author : {Absent, "", "Goethe", "Rilke"},
     text : {Absent, "", "Über allen Gipfeln"}]
    \cup
    [wellformed : {FALSE}, id : {Absent}, name : {Absent}, author : {Absent},
     text : {Absent}]
NoBody == [wellformed |-> FALSE, id |-> Absent, name |-> Absent,
           author |-> Absent, text |-> Absent]

\* json.NewDecoder(r.Body).Decode(&in) for In = Poem: a key the body does
\* not have leaves the field at its zero value
DecodePoem(body) ==
    LET field(v) == IF v = Absent THEN "" ELSE v
    IN IF ~body.wellformed
       THEN [val |-> ZeroPoem, err |-> "json: syntax error"]
       ELSE [val |-> [ID |-> field(body.id), Name |-> field(body.name),
                      Author |-> field(body.author), Text |-> field(body.text)],
             err |-> NoErr]

---------------------------------------------------------------------------
(* gwu/gwu.go *)

\* Logger.Info and Logger.Debug: the log as the sequence of messages
Info(log, msg) == Append(log, "INFO " \o msg)
Debug(log, msg) == Append(log, "DEBUG " \o msg)

\* IntoJSON(w, log, data, statusCode)
IntoJSON(w, log, data, statusCode) ==
    LET w1 == WriteHeader(SetContentType(w, "application/json"), statusCode)
        e == Encode(w1, data)
    IN IF e.err # NoErr
       THEN [w |-> Error(e.w, ErrEncodeResponse, StatusInternalServerError),
             log |-> Info(log, ErrEncodeResponse \o ": " \o e.err)]
       ELSE [w |-> e.w, log |-> log]

\* r.PathValue(key): the value of the route's wildcard, "" for another key
PathValue(r, key) == IF r.path.key = key THEN r.path.val ELSE ""

\* JSON[Poem](): the CnIn it returns, applied to r
JSON(r) ==
    LET d == DecodePoem(r.body)
    IN IF d.err # NoErr THEN [val |-> d.val, err |-> ErrDecodeRequest]
       ELSE [val |-> d.val, err |-> NoErr]

\* PathVal(key): the CnIn it returns, applied to r
PathVal(key, r) == [val |-> PathValue(r, key), err |-> NoErr]

\* Empty(): the CnIn it returns, applied to r
Empty(r) == [val |-> "nil", err |-> NoErr]

\* ValIn(fn, fnVal): the Exec it returns, applied to in. valErr is what
\* fnVal(in) returns and e what fn(ctx, in, opts) returns when it is called;
\* zero is the zero value of Out; s is what an Exec works on: [poems, log,
\* calls, rnd, order]
ValIn(valErr, e, zero, s) ==
    IF valErr # NoErr
    THEN [out |-> zero, code |-> StatusBadRequest, err |-> valErr,
          poems |-> s.poems, log |-> s.log, calls |-> s.calls]
    ELSE e

\* Handle(inFn, fn, optFns...): the http.Handler it returns, serving a
\* request. in is what inFn(r, opts) returns and e what fn(r.Context(), in,
\* opts) returns when it is called. The result is the ResponseWriter, the
\* store, the log and the calls made.
Handle(in, e, s) ==
    LET w == NewResponseWriter
    IN IF in.err # NoErr
       THEN [w |-> Error(w, in.err, StatusBadRequest),
             poems |-> s.poems, log |-> s.log, calls |-> s.calls]
       ELSE IF e.err # NoErr
       THEN [w |-> Error(w, e.err, e.code),
             poems |-> e.poems, log |-> e.log, calls |-> e.calls]
       ELSE LET j == IntoJSON(w, e.log, e.out, e.code)
            IN [w |-> j.w, poems |-> e.poems, log |-> j.log, calls |-> e.calls]

---------------------------------------------------------------------------
(* examples/poem/poem.go: the Store's methods, each as one call *)

\* IDIn(key): the CnIn it returns, applied to r
IDIn(key, r) == [val |-> PathValue(r, key), err |-> NoErr]

\* ValidateToCreate, without the check of the text
ValidateToCreate_NoText(p) ==
    IF p.Name = "" THEN "name" \o " required to create poem"
    ELSE IF p.Author = "" THEN "author" \o " required to create poem"
    ELSE NoErr

\* ValidateToCreate(p)
ValidateToCreate(p) ==
    IF p.Name = "" THEN "name" \o " required to create poem"
    ELSE IF p.Author = "" THEN "author" \o " required to create poem"
    ELSE IF p.Text = "" THEN "text" \o " required to create poem"
    ELSE NoErr

\* Store.Poem(id)
Poem(store, id) ==
    IF id \notin DOMAIN store THEN [poem |-> ZeroPoem, err |-> errNotFound]
    ELSE [poem |-> store[id], err |-> NoErr]

\* for _, poem := range s.poems: the poems the loop meets, order being the
\* order in which it meets the keys of the map
Range(store, order) == [i \in 1..Len(order) |-> store[order[i]]]

\* PoemsByAuthor, comparing the author asked for with the poem's name
PoemsByAuthor_ByName(store, author, order) ==
    SelectSeq(Range(store, order), LAMBDA poem : poem.Name = author)

\* Store.PoemsByAuthor(author)
PoemsByAuthor(store, author, order) ==
    SelectSeq(Range(store, order), LAMBDA poem : poem.Author = author)

\* Exists, with the lookup made under the poem's name
Exists_ByName(store, poem) == poem.Name \in DOMAIN store

\* Store.Add: _, exists := s.poems[poem.ID]
Exists(store, poem) == poem.ID \in DOMAIN store

\* Store.Add: s.poems[poem.ID] = poem
Assign(store, poem) ==
    [k \in DOMAIN store \cup {poem.ID} |->
        IF k = poem.ID THEN poem ELSE store[k]]

\* Add, without the lookup that rejects a stored identifier
Add_Overwrite(store, poem) == [poems |-> Assign(store, poem), err |-> NoErr]

\* Store.Add(poem)
Add(store, poem) ==
    IF Exists(store, poem) THEN [poems |-> store, err |-> errDuplicate]
    ELSE [poems |-> Assign(store, poem), err |-> NoErr]

\* Store.All(); order as for PoemsByAuthor
StoreAll(store, order) == Range(store, order)

\* the buckets of the map in bucket order, a bucket for every key the
\* model can store
RECURSIVE BucketOrder(_)
BucketOrder(S) ==
    IF S = {} THEN <<>>
    ELSE LET k == CHOOSE x \in S : TRUE IN <<k>> \o BucketOrder(S \ {k})
Slots == BucketOrder(NewID)
NSlots == Len(Slots)

\* the bucket a range loop that started at bucket start looks at in turn n
Bucket(start, n) == Slots[((start + n) % NSlots) + 1]

\* the orders in which a range loop can meet the keys S: it starts at a
\* random bucket and walks the buckets in order
Orders(S) ==
    {SelectSeq([n \in 1..NSlots |-> Bucket(start, n - 1)], LAMBDA k : k \in S) :
        start \in 0..(NSlots - 1)}

---------------------------------------------------------------------------
(* examples/poem/poem.go: the controller *)

\* PoemController.Create(ctx, poem, opts); s.rnd is what NewID returns
Create(poem, s) ==
    LET p == [poem EXCEPT !.ID = s.rnd]
        a == Add(s.poems, p)
        cs == s.calls \o <<"Create", "NewID", "Add">>
    IN IF a.err # NoErr
       THEN [out |-> PoemOut(p), code |-> StatusInternalServerError,
             err |-> ErrCouldNotCreate, poems |-> a.poems,
             log |-> Debug(s.log, "could not create poem"), calls |-> cs]
       ELSE [out |-> PoemOut(p), code |-> StatusCreated, err |-> NoErr,
             poems |-> a.poems, log |-> s.log, calls |-> cs]

\* PoemController.ByID(ctx, id, opts)
ByID(id, s) ==
    LET g == Poem(s.poems, id)
        cs == s.calls \o <<"ByID", "Poem">>
    IN IF g.err # NoErr
       THEN [out |-> PoemOut(g.poem), code |-> StatusNotFound,
             err |-> ErrNotFound, poems |-> s.poems,
             log |-> Debug(s.log, "requested non-existent poem"), calls |-> cs]
       ELSE [out |-> PoemOut(g.poem), code |-> StatusOK, err |-> NoErr,
             poems |-> s.poems, log |-> s.log, calls |-> cs]

\* PoemController.All(ctx, _, opts)
CtrlAll(in, s) ==
    [out |-> PoemsOut(StoreAll(s.poems, s.order)), code |-> StatusOK,
     err |-> NoErr, poems |-> s.poems, log |-> s.log,
     calls |-> s.calls \o <<"All", "All">>]

\* PoemController.ByAuthor(ctx, author, opts)
ByAuthor(author, s) ==
    LET ps == PoemsByAuthor(s.poems, author, s.order)
        cs == s.calls \o <<"ByAuthor", "PoemsByAuthor">>
    IN IF Len(ps) = 0
       THEN [out |-> NilOut, code |-> StatusNotFound, err |-> ErrAuthorNotFound,
             poems |-> s.poems,
             log |-> Debug(s.log, "no poems found for author"), calls |-> cs]
       ELSE [out |-> PoemsOut(ps), code |-> StatusOK, err |-> NoErr,
             poems |-> s.poems, log |-> s.log, calls |-> cs]

\* gwu.ValIn(ctrl.Create, ValidateToCreate), as main passes it to Handle
ValInCreate(poem, s) ==
    ValIn(ValidateToCreate(poem), Create(poem, s), PoemOut(ZeroPoem), s)

---------------------------------------------------------------------------
(* Spec: the routes main registers, one request at a time *)

\* what an arbitrary decoder and Exec can hand to Handle: the decoder's
\* error, and the Exec's output, status code and error
Codes == {StatusOK, StatusCreated, StatusBadRequest, StatusNotFound,
          StatusInternalServerError}
Outs == {[kind |-> "string", items |-> <<>>, str |-> "hello"],
         [kind |-> "chan int", items |-> <<>>, str |-> ""],
         NilOut}
NoGen == [inErr |-> NoErr, out |-> NilOut, code |-> 0, err |-> NoErr]
Gens == [inErr : {NoErr, "bad input"}, out : Outs, code : Codes,
         err : {NoErr, "exec failed"}]

NoPath == [key |-> "", val |-> ""]
NoReq == [route |-> "", path |-> NoPath, body |-> NoBody, rnd |-> "",
          gen |-> NoGen]

\* what an Exec of the request works on
Env(rnd, order) ==
    [poems |-> poems, log |-> <<>>, calls |-> <<>>, rnd |-> rnd, order |-> order]

\* the server serves r with handler result h
Serve(r, h) ==
    /\ req' = r
    /\ prev' = poems
    /\ resp' = h.w
    /\ logs' = h.log
    /\ calls' = h.calls
    /\ poems' = h.poems
    /\ hist' = IF h.poems = poems THEN hist ELSE Append(hist, h.poems)
    /\ UNCHANGED storeVars

\* GET /poem/{id}: gwu.Handle(IDIn("id"), ctrl.ByID, ...)
GetPoem ==
    \E id \in PathIDs :
        LET r == [NoReq EXCEPT !.route = "GET /poem/{id}",
                               !.path = [key |-> "id", val |-> id]]
            s == Env("", <<>>)
            in == IDIn("id", r)
        IN Serve(r, Handle(in, ByID(in.val, s), s))

\* GET /poems: gwu.Handle(gwu.Empty(), ctrl.All, ...)
GetPoems ==
    \E order \in Orders(DOMAIN poems) :
        LET r == [NoReq EXCEPT !.route = "GET /poems"]
            s == Env("", order)
            in == Empty(r)
        IN Serve(r, Handle(in, CtrlAll(in.val, s), s))

\* POST /poem: gwu.Handle(gwu.JSON[Poem](), gwu.ValIn(ctrl.Create, ValidateToCreate), ...)
\* rnd is what NewID returns; nothing is drawn ("") for a request that does
\* not get as far as Create
PostPoem ==
    \E body \in Bodies, rnd \in NewID \cup {""} :
        /\ (rnd = "") = (JSON([NoReq EXCEPT !.body = body]).err # NoErr
                         \/ ValidateToCreate(DecodePoem(body).val) # NoErr)
        /\ LET r == [NoReq EXCEPT !.route = "POST /poem", !.body = body,
                                  !.rnd = rnd]
               s == Env(rnd, <<>>)
               in == JSON(r)
           IN Serve(r, Handle(in, ValInCreate(in.val, s), s))

\* GET /poems/author/{author}: gwu.Handle(gwu.PathVal("author"), ctrl.ByAuthor, ...)
GetPoemsByAuthor ==
    \E author \in PathAuthors, order \in Orders(DOMAIN poems) :
        LET r == [NoReq EXCEPT !.route = "GET /poems/author/{author}",
                               !.path = [key |-> "author", val |-> author]]
            s == Env("", order)
            in == PathVal("author", r)
        IN Serve(r, Handle(in, ByAuthor(in.val, s), s))

\* a handler Handle built from any decoder and any Exec
HandleAny ==
    \E g \in Gens :
        LET r == [NoReq EXCEPT !.route = "ANY", !.gen = g]
            s == Env("", <<>>)
            in == [val |-> "in", err |-> g.inErr]
            e == [out |-> g.out, code |-> g.code, err |-> g.err,
                  poems |-> s.poems, log |-> s.log,
                  calls |-> Append(s.calls, "Exec")]
        IN Serve(r, Handle(in, e, s))

---------------------------------------------------------------------------
(* StoreSpec: goroutines in the Store's methods *)

Workers == 1..NumWorkers

NoOp == [name |-> "", poem |-> ZeroPoem, id |-> "", author |-> ""]
NoRet == [poem |-> ZeroPoem, err |-> NoErr, list |-> <<>>]
NoIt == [start |-> 0, n |-> 0]

\* the poem goroutine w adds under identifier id
WorkerPoem(w, id) ==
    [ID |-> id, Name |-> "Poem of worker " \o ToString(w), Author |-> "Goethe",
     Text |-> "text"]

\* the calls a goroutine can make
Ops(w) ==
    {[NoOp EXCEPT !.name = "Add", !.poem = WorkerPoem(w, id)] :
        id \in FreshIDs \cup {"isjzB57elf"}}
    \cup {[NoOp EXCEPT !.name = "Poem", !.id = id] :
        id \in FreshIDs \cup {"isjzB57elf"}}
    \cup {[NoOp EXCEPT !.name = "PoemsByAuthor", !.author = "Goethe"]}
    \cup {[NoOp EXCEPT !.name = "All"]}

\* a Lock that does not wait
CanLock_NoWait(m) == TRUE

\* s.mu.Lock() returns once no writer and no reader holds the lock
CanLock(m) == ~m.w /\ m.r = 0

\* an RLock that does not wait
CanRLock_NoWait(m) == TRUE

\* s.mu.RLock() returns once no writer holds the lock
CanRLock(m) == ~m.w

Goto(w, label) == pc' = [pc EXCEPT ![w] = label]

\* goroutine w calls a method of the Store
Call(w) ==
    /\ pc[w] = "idle"
    /\ \E o \in Ops(w) :
        /\ op' = [op EXCEPT ![w] = o]
        /\ Goto(w, o.name \o ".Lock")
    /\ span' = [span EXCEPT ![w] = [lo |-> Len(hist), hi |-> 0]]
    /\ UNCHANGED <<poems, hist, mu, ret, it, httpVars>>

\* the method returns: its deferred Unlock or RUnlock has run, its loop
\* variable is gone
Return(w) ==
    /\ Goto(w, "done")
    /\ span' = [span EXCEPT ![w].hi = Len(hist)]
    /\ it' = [it EXCEPT ![w] = NoIt]

\* Store.Add: s.mu.Lock()
AddLock(w) ==
    /\ pc[w] = "Add.Lock"
    /\ CanLock(mu)
    /\ mu' = [mu EXCEPT !.w = TRUE]
    /\ Goto(w, "Add.exists")
    /\ UNCHANGED <<poems, hist, op, ret, it, span, httpVars>>

\* Store.Add: _, exists := s.poems[poem.ID]; if exists { return errDuplicate }
AddCheck(w) ==
    /\ pc[w] = "Add.exists"
    /\ IF Exists(poems, op[w].poem)
       THEN /\ ret' = [ret EXCEPT ![w].err = errDuplicate]
            /\ Goto(w, "Add.Unlock")
       ELSE /\ ret' = ret
            /\ Goto(w, "Add.store")
    /\ UNCHANGED <<poems, hist, mu, op, it, span, httpVars>>

\* Store.Add: s.poems[poem.ID] = poem; return nil
AddStore(w) ==
    /\ pc[w] = "Add.store"
    /\ poems' = Assign(poems, op[w].poem)
    /\ hist' = Append(hist, poems')
    /\ ret' = [ret EXCEPT ![w].err = NoErr]
    /\ Goto(w, "Add.Unlock")
    /\ UNCHANGED <<mu, op, it, span, httpVars>>

\* Store.Add: defer s.mu.Unlock()
AddUnlock(w) ==
    /\ pc[w] = "Add.Unlock"
    /\ mu' = [mu EXCEPT !.w = FALSE]
    /\ Return(w)
    /\ UNCHANGED <<poems, hist, op, ret, httpVars>>

\* Store.Poem: s.mu.RLock()
PoemRLock(w) ==
    /\ pc[w] = "Poem.Lock"
    /\ CanRLock(mu)
    /\ mu' = [mu EXCEPT !.r = @ + 1]
    /\ Goto(w, "Poem.read")
    /\ UNCHANGED <<poems, hist, op, ret, it, span, httpVars>>

\* Store.Poem: poem, exists := s.poems[id] and the return
PoemRead(w) ==
    /\ pc[w] = "Poem.read"
    /\ ret' = [ret EXCEPT ![w] = [NoRet EXCEPT !.poem = Poem(poems, op[w].id).poem,
                                               !.err = Poem(poems, op[w].id).err]]
    /\ Goto(w, "Poem.RUnlock")
    /\ UNCHANGED <<poems, hist, mu, op, it, span, httpVars>>

\* Store.Poem: defer s.mu.RUnlock()
PoemRUnlock(w) ==
    /\ pc[w] = "Poem.RUnlock"
    /\ mu' = [mu EXCEPT !.r = @ - 1]
    /\ Return(w)
    /\ UNCHANGED <<poems, hist, op, ret, httpVars>>

\* s.mu.RLock(), the empty slice, and the start of the range loop. The
\* bucket the loop starts at decides the order of the slice only (Orders, in
\* Spec); here every loop starts at the first bucket
ListRLock(w, name) ==
    /\ pc[w] = name \o ".Lock"
    /\ CanRLock(mu)
    /\ mu' = [mu EXCEPT !.r = @ + 1]
    /\ it' = [it EXCEPT ![w] = [start |-> 0, n |-> 0]]
    /\ ret' = [ret EXCEPT ![w] = NoRet]
    /\ Goto(w, name \o ".range")
    /\ UNCHANGED <<poems, hist, op, span, httpVars>>

\* one turn of for _, poem := range s.poems: the loop looks at the next
\* bucket; keep says whether it appends the poem the bucket holds
ListLoop(w, name, keep) ==
    /\ pc[w] = name \o ".range"
    /\ LET k == Bucket(it[w].start, it[w].n)
       IN ret' = IF k \in DOMAIN poems /\ keep[k]
                 THEN [ret EXCEPT ![w].list = Append(@, poems[k])]
                 ELSE ret
    /\ it' = [it EXCEPT ![w].n = @ + 1]
    /\ IF it[w].n + 1 = NSlots THEN Goto(w, name \o ".RUnlock") ELSE pc' = pc
    /\ UNCHANGED <<poems, hist, mu, op, span, httpVars>>

\* defer s.mu.RUnlock() of a method that returns a slice
ListRUnlock(w, name) ==
    /\ pc[w] = name \o ".RUnlock"
    /\ mu' = [mu EXCEPT !.r = @ - 1]
    /\ Return(w)
    /\ UNCHANGED <<poems, hist, op, ret, httpVars>>

\* Store.PoemsByAuthor
ByAuthorRLock(w) == ListRLock(w, "PoemsByAuthor")
ByAuthorLoop(w) ==
    ListLoop(w, "PoemsByAuthor",
             [k \in DOMAIN poems |-> poems[k].Author = op[w].author])
ByAuthorRUnlock(w) == ListRUnlock(w, "PoemsByAuthor")

\* Store.All
AllRLock(w) == ListRLock(w, "All")
AllLoop(w) == ListLoop(w, "All", [k \in DOMAIN poems |-> TRUE])
AllRUnlock(w) == ListRUnlock(w, "All")

---------------------------------------------------------------------------
(* The specifications *)

Init ==
    /\ poems = NewStore
    /\ req = NoReq
    /\ prev = NewStore
    /\ resp = NewResponseWriter
    /\ logs = <<>>
    /\ calls = <<>>
    /\ mu = [w |-> FALSE, r |-> 0]
    /\ pc = [w \in Workers |-> "idle"]
    /\ op = [w \in Workers |-> NoOp]
    /\ ret = [w \in Workers |-> NoRet]
    /\ it = [w \in Workers |-> NoIt]
    /\ hist = <<NewStore>>
    /\ span = [w \in Workers |-> [lo |-> 0, hi |-> 0]]

Next ==
    \/ GetPoem
    \/ GetPoems
    \/ PostPoem
    \/ GetPoemsByAuthor
    \/ HandleAny

Spec == Init /\ [][Next]_vars

StoreNext ==
    \E w \in Workers :
        \/ Call(w)
        \/ AddLock(w)
        \/ AddCheck(w)
        \/ AddStore(w)
        \/ AddUnlock(w)
        \/ PoemRLock(w)
        \/ PoemRead(w)
        \/ PoemRUnlock(w)
        \/ ByAuthorRLock(w)
        \/ ByAuthorLoop(w)
        \/ ByAuthorRUnlock(w)
        \/ AllRLock(w)
        \/ AllLoop(w)
        \/ AllRUnlock(w)

StoreSpec == Init /\ [][StoreNext]_vars

---------------------------------------------------------------------------
(* What a client reads from a response *)

\* the Poem a JSON object of the response decodes to
UnmarshalPoem(line) ==
    [ID |-> line[3], Name |-> line[5], Author |-> line[7], Text |-> line[9]]

\* the []Poem a JSON array of the response decodes to
UnmarshalPoems(line) ==
    [i \in 1..((Len(line) - 2) \div 10) |->
        UnmarshalPoem(SubSeq(line, 2 + 10 * (i - 1), 1 + 10 * i))]

\* the response is JSON, one document
IsJSON(w) == w.sent = "application/json" /\ Len(w.body) = 1

\* the response is the plain text msg
IsText(w, msg) == w.sent = "text/plain; charset=utf-8" /\ w.body = <<<<msg>>>>

\* the body has a non-empty value for field v
Given(v) == v \notin {Absent, ""}

\* a body that parses and has name, author and text non-empty
ValidBody(b) ==
    b.wellformed /\ Given(b.name) /\ Given(b.author) /\ Given(b.text)

\* the Poem a valid body describes, under identifier id
BodyPoem(b, id) ==
    [ID |-> id, Name |-> b.name, Author |-> b.author, Text |-> b.text]

---------------------------------------------------------------------------
(* Claims checked under StoreSpec *)

\* C1: an identifier that is in the store keeps mapping to the same Record
\* in every step of every Store method; an Add that finds its identifier
\* stored returns the duplicate error and leaves the map as it is.
StoredForever ==
    \A id \in DOMAIN poems : id \in DOMAIN poems' /\ poems'[id] = poems[id]
DuplicateRejected ==
    \A w \in Workers :
        (pc[w] = "Add.exists" /\ pc'[w] # pc[w]
            /\ op[w].poem.ID \in DOMAIN poems)
        => /\ pc'[w] = "Add.Unlock"
           /\ ret'[w].err = errDuplicate
           /\ poems' = poems
AddResultKept ==
    \A w \in Workers :
        (pc[w] = "Add.Unlock" /\ pc'[w] = "done")
        => ret'[w] = ret[w] /\ poems' = poems
C1_NeverOverwritten ==
    [][StoredForever /\ DuplicateRejected /\ AddResultKept]_vars

\* C1 witness: an Add of an identifier another goroutine had stored has
\* returned the duplicate error, and the other goroutine's Record is stored.
C1_Witness ==
    \E w, v \in Workers :
        /\ w # v
        /\ pc[w] = "done" /\ op[w].name = "Add" /\ ret[w].err = errDuplicate
        /\ pc[v] = "done" /\ op[v].name = "Add" /\ ret[v].err = NoErr
        /\ op[v].poem.ID = op[w].poem.ID
        /\ op[v].poem # op[w].poem
        /\ poems[op[w].poem.ID] = op[v].poem

\* the goroutines that called Add with identifier id
Adders(id) == {w \in Workers : op[w].name = "Add" /\ op[w].poem.ID = id}

\* C2: once the concurrent Adds of an identifier that was not stored have
\* all returned, exactly one of them returned nil, every other one returned
\* the duplicate error, and Poem returns the Record of the one that
\* succeeded; so Adds of distinct identifiers all succeed and all their
\* Records are retrievable.
C2_ConcurrentAdds ==
    \A id \in FreshIDs :
        (Adders(id) # {} /\ \A w \in Adders(id) : pc[w] = "done")
        => /\ Cardinality({w \in Adders(id) : ret[w].err = NoErr}) = 1
           /\ \A w \in Adders(id) :
                /\ ret[w].err \in {NoErr, errDuplicate}
                /\ ret[w].err = NoErr
                    => Poem(poems, id) = [poem |-> op[w].poem, err |-> NoErr]

\* C2 witness: every goroutine has added and returned, two of them under
\* the same fresh identifier.
C2_Witness ==
    /\ \A w \in Workers :
        pc[w] = "done" /\ op[w].name = "Add" /\ op[w].poem.ID \in FreshIDs
    /\ \E w, v \in Workers : w # v /\ op[w].poem.ID = op[v].poem.ID

InWrite(w) == pc[w] \in {"Add.exists", "Add.store", "Add.Unlock"}
InRead(w) ==
    pc[w] \in {"Poem.read", "Poem.RUnlock", "PoemsByAuthor.range",
               "PoemsByAuthor.RUnlock", "All.range", "All.RUnlock"}

\* the slice list holds the poems store has under the keys keys, each as
\* often as store has it there, and nothing else
SameBag(list, store, keys) ==
    /\ Len(list) = Cardinality(keys)
    /\ \A k \in keys :
        Cardinality({i \in DOMAIN list : list[i] = store[k]})
            = Cardinality({j \in keys : store[j] = store[k]})

\* the keys under which store has a poem of the author
KeysOfAuthor(store, author) == {k \in DOMAIN store : store[k].Author = author}

\* what goroutine w's read returned is what the read returns on store
ReadOf(w, store) ==
    CASE op[w].name = "Poem" ->
            /\ ret[w].poem = Poem(store, op[w].id).poem
            /\ ret[w].err = Poem(store, op[w].id).err
      [] op[w].name = "PoemsByAuthor" ->
            SameBag(ret[w].list, store, KeysOfAuthor(store, op[w].author))
      [] op[w].name = "All" ->
            SameBag(ret[w].list, store, DOMAIN store)
      [] OTHER -> FALSE

\* C3: a goroutine between Lock and Unlock of Add excludes every other
\* goroutine between its RLock and RUnlock or its Lock and Unlock, the lock
\* word agrees with the goroutines inside, and what a read returned is what
\* it returns on one of the values the map had between the read's call and
\* its return (the map before or after each Add it ran beside).
C3_LockDiscipline ==
    /\ \A w, v \in Workers :
        (w # v /\ InWrite(w)) => ~InWrite(v) /\ ~InRead(v)
    /\ mu.w = (\E w \in Workers : InWrite(w))
    /\ mu.r = Cardinality({w \in Workers : InRead(w)})
    /\ \A w \in Workers :
        (pc[w] = "done" /\ op[w].name # "Add")
        => \E i \in span[w].lo..span[w].hi : ReadOf(w, hist[i])

\* C3 witness: a PoemsByAuthor or All returned that had been called before
\* an Add stored its Record and returned after it.
C3_Witness ==
    \E w \in Workers :
        /\ pc[w] = "done" /\ op[w].name \in {"PoemsByAuthor", "All"}
        /\ span[w].lo < span[w].hi
        /\ ReadOf(w, hist[span[w].hi])

---------------------------------------------------------------------------
(* Claims checked under Spec *)

IsPost == req.route = "POST /poem"

\* C4, as claimed: a POST /poem with a valid body returns 201 and a Record
\* whose identifier was not a key of the store.
C4_AlwaysCreated ==
    (IsPost /\ ValidBody(req.body))
    => /\ resp.status = StatusCreated
       /\ IsJSON(resp)
       /\ UnmarshalPoem(resp.body[1]).ID \notin DOMAIN prev

\* C4, amended: a POST /poem with a valid body returns 201 and the Record
\* of the body under the identifier NewID returned, now stored under it,
\* whenever that identifier was not a key of the store; when it was, the
\* response is 500 with the could-not-create message and the store is as it
\* was.
C4_CreatedUnlessCollision ==
    (IsPost /\ ValidBody(req.body))
    => IF req.rnd \notin DOMAIN prev
       THEN /\ resp.status = StatusCreated
            /\ IsJSON(resp)
            /\ UnmarshalPoem(resp.body[1]) = BodyPoem(req.body, req.rnd)
            /\ DOMAIN poems = DOMAIN prev \cup {req.rnd}
            /\ poems[req.rnd] = BodyPoem(req.body, req.rnd)
            /\ \A k \in DOMAIN prev : poems[k] = prev[k]
       ELSE /\ resp.status = StatusInternalServerError
            /\ IsText(resp, ErrCouldNotCreate)
            /\ poems = prev

\* C4 witness: a valid POST came to a store that held a created poem
\* already, and was answered 201.
C4_Witness ==
    /\ IsPost /\ ValidBody(req.body)
    /\ resp.status = StatusCreated
    /\ DOMAIN prev # DOMAIN NewStore

\* a body that parses and lacks a non-empty name, author or text
LacksRequired(b) ==
    b.wellformed /\ ~(Given(b.name) /\ Given(b.author) /\ Given(b.text))

\* the first required field, in the order name, author, text, the body lacks
FirstLacking(b) ==
    IF ~Given(b.name) THEN "name"
    ELSE IF ~Given(b.author) THEN "author" ELSE "text"

\* C5: a POST /poem whose body lacks a required field, or has it empty, is
\* answered 400 with the validation error as body; Create (and so NewID and
\* Add) is not called and the store is as it was.
C5_ValidationShortCircuits ==
    (IsPost /\ LacksRequired(req.body))
    => /\ resp.status = StatusBadRequest
       /\ IsText(resp, FirstLacking(req.body) \o " required to create poem")
       /\ resp.writeHeaderCalls = 1
       /\ \A i \in DOMAIN calls : calls[i] \notin {"Create", "NewID", "Add"}
       /\ poems = prev

\* C5 witness: a POST whose body lacks exactly one required field was
\* answered 400.
C5_Witness ==
    /\ IsPost /\ req.body.wellformed
    /\ Given(req.body.name) /\ Given(req.body.author)
    /\ req.body.text = Absent
    /\ resp.status = StatusBadRequest

IsGetPoem == req.route = "GET /poem/{id}"

\* C6, as claimed: GET /poem/{id} returns 200 and the stored Record whose
\* identifier is id when there is one, and 404 with the not-found message
\* when id is neither the identifier nor the key of anything stored.
C6_FetchByIdentifier ==
    IsGetPoem
    => LET stored == {prev[k] : k \in DOMAIN prev}
           found == {p \in stored : p.ID = req.path.val}
       IN /\ found # {}
             => /\ resp.status = StatusOK
                /\ IsJSON(resp)
                /\ UnmarshalPoem(resp.body[1]) \in found
          /\ (found = {} /\ req.path.val \notin DOMAIN prev)
             => /\ resp.status = StatusNotFound
                /\ IsText(resp, ErrNotFound)
          /\ poems = prev

\* the handler got as far as IntoJSON and json could not encode the output
EncodeFailed ==
    /\ req.route = "ANY"
    /\ req.gen.inErr = NoErr
    /\ req.gen.err = NoErr
    /\ Marshal(req.gen.out).err # NoErr

\* C7, as claimed: when the encoding of the output fails, the failure is
\* logged and the client receives status 500 and the encode-error message,
\* whatever status code the Exec returned.
C7_EncodeErrorIs500 ==
    EncodeFailed
    => /\ logs # <<>>
       /\ resp.status = StatusInternalServerError
       /\ IsText(resp, ErrEncodeResponse)

\* C8, as claimed: a handler built by Handle writes one response: one
\* status line, one set of headers, one body. A decoder error gives 400 and
\* the error text, and the Exec is not called; an Exec error gives the
\* Exec's status code and the error text, and no JSON; otherwise the output
\* goes out as JSON under the Exec's status code.
C8_OneResponse ==
    req.route = "ANY"
    => /\ resp.writeHeaderCalls = 1
       /\ resp.sent = resp.header
       /\ Len(resp.body) = 1
       /\ IF req.gen.inErr # NoErr
          THEN /\ resp.status = StatusBadRequest
               /\ IsText(resp, req.gen.inErr)
               /\ calls = <<>>
          ELSE IF req.gen.err # NoErr
          THEN /\ resp.status = req.gen.code
               /\ IsText(resp, req.gen.err)
          ELSE /\ resp.status = req.gen.code
               /\ IsJSON(resp)
               /\ resp.body = <<Marshal(req.gen.out).line>>

\* C9, as claimed: every stored Record's identifier is the key it is stored
\* under.
C9_IdentifierIsKey == \A k \in DOMAIN poems : poems[k].ID = k

IsByAuthor == req.route = "GET /poems/author/{author}"

\* C10: GET /poems/author/{author} returns 404 when no stored Record has
\* that author, and otherwise 200 with the stored Records of that author,
\* each once, in some order; the store is as it was.
C10_ByAuthorExact ==
    IsByAuthor
    => /\ poems = prev
       /\ IF KeysOfAuthor(prev, req.path.val) = {}
          THEN resp.status = StatusNotFound /\ ~IsJSON(resp)
          ELSE /\ resp.status = StatusOK
               /\ IsJSON(resp)
               /\ SameBag(UnmarshalPoems(resp.body[1]), prev,
                          KeysOfAuthor(prev, req.path.val))

\* C10 witness: the poems of an author who has a mock poem and a created
\* one were asked for and came back.
C10_Witness ==
    /\ IsByAuthor
    /\ resp.status = StatusOK
    /\ \E k \in DOMAIN prev \ DOMAIN NewStore : prev[k].Author = req.path.val
    /\ \E k \in DOMAIN NewStore : prev[k].Author = req.path.val
====
